---- MODULE Spec2Model ----
(***************************************************************************)
(* A model of Modules/Cost-Alerting/lambda.py: the four resource checks,   *)
(* the savings estimate, the alert publisher and lambda_handler, with the  *)
(* three AWS clients (inventory, CloudWatch metrics, SNS) as an            *)
(* environment whose every call either answers or raises.                  *)
(*                                                                         *)
(* Numbers.  A metric average is the exact rational sum/len, kept as a     *)
(* normalised pair [num, den]; round(x, 2) is kept in hundredths.  Prices  *)
(* are kept in cents, so 8.5 is 850 and the default 50 is 5000.            *)
(* Identifiers are the record's position in the listing.  A record is a    *)
(* function from field names to values, so a missing key is a name outside *)
(* its DOMAIN, as a missing key of a Python dict is.                       *)
(***************************************************************************)
EXTENDS Integers, Sequences, FiniteSets, TLC

VARIABLES
    pc,                 \* position in lambda_handler and in the running check
    inventory,          \* the running check's listing (instances, db_instances['DBInstances'], snapshots, volumes['Volumes'])
    i,                  \* position of the running check's for loop in that listing
    underutilized,      \* the running check's accumulator (underutilized, old_snapshots, unattached)
    cpu_avg,            \* last value of the local cpu_avg
    network_in,         \* last value of the local network_in
    network_out,        \* last value of the local network_out
    ec2_underused,      \* lambda_handler's locals, bound when each check returns
    rds_underused,
    old_snapshots,
    unattached_volumes,
    savings,            \* publish_enhanced_alert's local savings
    message,            \* publish_enhanced_alert's local message, as a sequence of lines
    published,          \* the sns.publish calls that were accepted: <<Subject, Message>>
    result,             \* what lambda_handler returned
    escaped,            \* TRUE when an exception left lambda_handler
    \* history, read by the properties only
    metricKinds,        \* what the three metric calls of the last evaluated record did: "error", "empty" or "data"
    expected,           \* the findings the classification rule selects among the records the loop has passed
    evaluated,          \* the positions of the records whose loop body ran to its end
    raisedAt,           \* position of the record whose processing raised in the running check (0: none)
    listingFailed,      \* the checks whose inventory call raised
    loopRaised,         \* the checks whose loop raised on a record
    expectedOf,         \* per returned check, `expected` as it was when the check returned
    checksRun,          \* the checks that have returned, in order
    estimatorCalls,     \* calls of estimate_monthly_savings
    composerCalls,      \* calls of publish_enhanced_alert
    snsCalls,           \* calls of sns.publish, accepted or not
    snsFailed,          \* TRUE when sns.publish raised
    checksAtPublish     \* number of checks that had returned when sns.publish was called

vars == <<pc, inventory, i, underutilized, cpu_avg, network_in, network_out,
          ec2_underused, rds_underused, old_snapshots, unattached_volumes,
          savings, message, published, result, escaped,
          metricKinds, expected, evaluated, raisedAt, listingFailed, loopRaised,
          expectedOf, checksRun, estimatorCalls, composerCalls, snsCalls,
          snsFailed, checksAtPublish>>

checkLocals == <<inventory, i, underutilized, cpu_avg, network_in, network_out,
                 metricKinds, expected, evaluated, raisedAt>>
handlerLocals == <<ec2_underused, rds_underused, old_snapshots, unattached_volumes>>
publishVars == <<savings, message, published, estimatorCalls, composerCalls,
                 snsCalls, snsFailed, checksAtPublish>>
outcomeVars == <<result, escaped>>
historyOfChecks == <<listingFailed, loopRaised, expectedOf, checksRun>>

----------------------------------------------------------------------------
(* Configuration, lambda.py lines 9-13. *)
EC2_CPU_THRESHOLD == 10
EBS_SNAPSHOT_AGE_DAYS == 30
RDS_CPU_THRESHOLD == 10
NETWORK_THRESHOLD == 1000

(* Bounds of the model. *)
MaxRecords == 2         \* records in one listing

----------------------------------------------------------------------------
(* Numbers. *)
RECURSIVE GCD(_, _)
GCD(a, b) == IF b = 0 THEN a ELSE GCD(b, a % b)

Rat(n, d) == LET g == GCD(n, d) IN [num |-> n \div g, den |-> d \div g]

Zero == [num |-> 0, den |-> 1]

\* x < t for a rational x and an integer t
Below(x, t) == x.num < t * x.den

\* round(x, 2) in hundredths, ties to even
Round2(x) ==
    LET n == 100 * x.num
        q == n \div x.den
        r == n % x.den
    IN  IF 2 * r < x.den THEN q
        ELSE IF 2 * r > x.den THEN q + 1
        ELSE IF q % 2 = 0 THEN q ELSE q + 1

RECURSIVE SumSeq(_)
SumSeq(s) == IF s = <<>> THEN 0 ELSE Head(s) + SumSeq(Tail(s))

SeqsUpTo(S, n) == UNION {[1..k -> S] : k \in 0..n}

----------------------------------------------------------------------------
(* Dictionaries. *)
Get(d, k, default) == IF k \in DOMAIN d THEN d[k] ELSE default

\* {t['Key']: t['Value'] for t in tagList}: a key given twice keeps its last value
TagDict(tagList) ==
    [k \in {tagList[j].Key : j \in DOMAIN tagList} |->
        LET last == CHOOSE j \in DOMAIN tagList :
                        /\ tagList[j].Key = k
                        /\ \A m \in DOMAIN tagList : tagList[m].Key = k => m <= j
        IN  tagList[last].Value]

get_instance_tags(instance) == TagDict(Get(instance, "Tags", <<>>))

Tag(k, v) == [Key |-> k, Value |-> v]

----------------------------------------------------------------------------
(* get_metric_average, lines 25-46.  An answer of                           *)
(* cloudwatch.get_metric_statistics is [ok |-> FALSE, ...] when the call    *)
(* raises, else the 'Average' values of its datapoints.  The result says    *)
(* whether an exception left the function, and the value returned.          *)
Returned(v) == [raised |-> FALSE, value |-> v]

Raised == [raised |-> TRUE, value |-> Zero]

MetricAverageNoCatch(answer) ==
    IF ~answer.ok THEN Raised
    ELSE IF answer.Datapoints = <<>> THEN Returned(Zero)
    ELSE Returned(Rat(SumSeq(answer.Datapoints), Len(answer.Datapoints)))

get_metric_average(answer) ==
    IF ~answer.ok THEN Returned(Zero)                        \* except: return 0.0
    ELSE IF answer.Datapoints = <<>> THEN Returned(Zero)     \* if not datapoints: return 0.0
    ELSE Returned(Rat(SumSeq(answer.Datapoints), Len(answer.Datapoints)))

MetricKind(answer) ==
    IF ~answer.ok THEN "error"
    ELSE IF answer.Datapoints = <<>> THEN "empty" ELSE "data"

MetricFails == [ok |-> FALSE, Datapoints |-> <<>>]

Datapoints(d) == [ok |-> TRUE, Datapoints |-> d]

\* for the checks that make no metric call
NoMetric == {Datapoints(<<>>)}

----------------------------------------------------------------------------
(* The body of each check's for loop: what one record does to the           *)
(* accumulator.  raised: an exception left the body (a KeyError on a        *)
(* missing required key, or one a metric call let out).  calls: the number  *)
(* of metric calls made for the record.                                     *)
BodyRaised(acc) ==
    [raised |-> TRUE, acc |-> acc, calls |-> 0,
     cpu |-> Zero, nin |-> Zero, nout |-> Zero]

BodyDone(acc, calls, cpu, nin, nout) ==
    [raised |-> FALSE, acc |-> acc, calls |-> calls,
     cpu |-> cpu, nin |-> nin, nout |-> nout]

\* lines 69-70
ec2_ignored(tags) ==
    IF "CostOptimization" \in DOMAIN tags THEN tags["CostOptimization"] = "Ignore" ELSE FALSE

Ec2LowNonStrict(cpu, nin, nout) ==
    /\ cpu.num <= EC2_CPU_THRESHOLD * cpu.den
    /\ Below(nin, NETWORK_THRESHOLD)
    /\ Below(nout, NETWORK_THRESHOLD)

\* lines 90-92
ec2_low(cpu, nin, nout) ==
    /\ Below(cpu, EC2_CPU_THRESHOLD)
    /\ Below(nin, NETWORK_THRESHOLD)
    /\ Below(nout, NETWORK_THRESHOLD)

\* lines 64-99
ec2_body(instance, a, b, d, acc) ==
    IF ~({"InstanceId", "InstanceType"} \subseteq DOMAIN instance) THEN BodyRaised(acc)
    ELSE LET tags == get_instance_tags(instance) IN
         IF ec2_ignored(tags) THEN BodyDone(acc, 0, Zero, Zero, Zero)
         ELSE LET cpu == get_metric_average(a)
                  nin == get_metric_average(b)
                  nout == get_metric_average(d)
              IN  IF cpu.raised \/ nin.raised \/ nout.raised THEN BodyRaised(acc)
                  ELSE BodyDone(
                         IF ec2_low(cpu.value, nin.value, nout.value)
                         THEN Append(acc, <<instance.InstanceId, Round2(cpu.value),
                                            instance.InstanceType, tags>>)
                         ELSE acc,
                         3, cpu.value, nin.value, nout.value)

\* line 128
rds_low(cpu) == Below(cpu, RDS_CPU_THRESHOLD)

\* lines 117-129
rds_body(db, a, b, d, acc) ==
    IF "DBInstanceStatus" \notin DOMAIN db THEN BodyRaised(acc)
    ELSE IF db.DBInstanceStatus # "available" THEN BodyDone(acc, 0, Zero, Zero, Zero)
    ELSE IF ~({"DBInstanceIdentifier", "DBInstanceClass"} \subseteq DOMAIN db) THEN BodyRaised(acc)
    ELSE LET cpu == get_metric_average(a) IN
         IF cpu.raised THEN BodyRaised(acc)
         ELSE BodyDone(
                IF rds_low(cpu.value)
                THEN Append(acc, <<db.DBInstanceIdentifier, Round2(cpu.value), db.DBInstanceClass>>)
                ELSE acc,
                1, cpu.value, Zero, Zero)

\* line 151: (now - start_time).days, with StartTime kept as the hours elapsed at `now`
snapshot_age(snap) == snap.StartTime \div 24

\* line 157
snapshot_kept(tags) == \E tag \in {"DoNotDelete", "Keep", "Backup"} : tag \in DOMAIN tags

SnapshotOldNonStrict(age) == age >= EBS_SNAPSHOT_AGE_DAYS

\* line 160
snapshot_old(age) == age > EBS_SNAPSHOT_AGE_DAYS

\* lines 149-166
snapshot_body(snap, a, b, d, acc) ==
    IF ~({"SnapshotId", "StartTime"} \subseteq DOMAIN snap) THEN BodyRaised(acc)
    ELSE LET age == snapshot_age(snap)
             volume_size == Get(snap, "VolumeSize", 0)
             tags == TagDict(Get(snap, "Tags", <<>>))
         IN  IF snapshot_kept(tags) THEN BodyDone(acc, 0, Zero, Zero, Zero)
             ELSE BodyDone(
                    IF snapshot_old(age)
                    THEN Append(acc, <<snap.SnapshotId, age, Get(tags, "Name", "Unnamed"),
                                       <<volume_size, "GB">> >>)
                    ELSE acc,
                    0, Zero, Zero, Zero)

\* lines 187-194
volume_body(volume, a, b, d, acc) ==
    IF ~({"VolumeId", "Size", "VolumeType"} \subseteq DOMAIN volume) THEN BodyRaised(acc)
    ELSE LET tags == TagDict(Get(volume, "Tags", <<>>))
             name == Get(tags, "Name", "Unnamed")
         IN  BodyDone(Append(acc, <<volume.VolumeId, <<volume.Size, "GB">>, name>>),
                      0, Zero, Zero, Zero)

(* Each check's except clause (lines 101-103, 131-134, 168-171, 196-199):   *)
(* the exception is printed and the accumulator is returned as it stands.   *)
ExceptPropagates(acc) == [raised |-> TRUE, value |-> <<>>]

ExceptReturnsEmpty(acc) == [raised |-> FALSE, value |-> <<>>]

ec2_except(acc) == [raised |-> FALSE, value |-> acc]

rds_except(acc) == [raised |-> FALSE, value |-> acc]

snapshot_except(acc) == [raised |-> FALSE, value |-> acc]

volume_except(acc) == [raised |-> FALSE, value |-> acc]

----------------------------------------------------------------------------
(* What the properties compare the code with: the classification rules as   *)
(* the specification words them, over the record as the provider listed it  *)
(* and the averages the check obtained for it.                              *)
HasTag(record, k, v) ==
    \E j \in DOMAIN Get(record, "Tags", <<>>) :
        record.Tags[j].Key = k /\ record.Tags[j].Value = v

HasTagKey(record, k) ==
    \E j \in DOMAIN Get(record, "Tags", <<>>) : record.Tags[j].Key = k

Ec2Rule(instance, cpu, nin, nout) ==
    /\ ~HasTag(instance, "CostOptimization", "Ignore")
    /\ cpu.num < EC2_CPU_THRESHOLD * cpu.den
    /\ nin.num < NETWORK_THRESHOLD * nin.den
    /\ nout.num < NETWORK_THRESHOLD * nout.den

RdsRule(db, cpu, nin, nout) ==
    /\ db.DBInstanceStatus = "available"
    /\ cpu.num < RDS_CPU_THRESHOLD * cpu.den

SnapshotRule(snap, cpu, nin, nout) ==
    /\ \A k \in {"DoNotDelete", "Keep", "Backup"} : ~HasTagKey(snap, k)
    /\ snap.StartTime >= 24 * (EBS_SNAPSHOT_AGE_DAYS + 1)

VolumeRule(volume, cpu, nin, nout) == TRUE

----------------------------------------------------------------------------
(* lambda_handler's except clause, lines 306-311. *)
HandlerLetsOut(e) == [escaped |-> TRUE, result |-> [statusCode |-> 0, body |-> [error |-> e]]]

lambda_handler_except(e) ==
    [escaped |-> FALSE, result |-> [statusCode |-> 500, body |-> [error |-> e]]]

NoResult == [statusCode |-> 0, body |-> [error |-> ""]]

NoSavings == [ec2 |-> -1, rds |-> -1, storage |-> -1, total |-> -1]

Checks == <<"ec2", "rds", "snapshots", "volumes">>

NextPc(c) ==
    CASE c = "ec2" -> <<"rds", "call">>
      [] c = "rds" -> <<"snapshots", "call">>
      [] c = "snapshots" -> <<"volumes", "call">>
      [] c = "volumes" -> <<"handler", "publish">>

\* the identifier key of each category's records
IdKey(c) ==
    CASE c = "ec2" -> "InstanceId"
      [] c = "rds" -> "DBInstanceIdentifier"
      [] c = "snapshots" -> "SnapshotId"
      [] c = "volumes" -> "VolumeId"

\* a listing of shapes as the provider returns it: each record with its identifier
Listed(c, shapes) == [k \in DOMAIN shapes |-> shapes[k] @@ (IdKey(c) :> k)]

InventoryAnswers(listings) ==
    {[ok |-> FALSE, items |-> <<>>]} \cup {[ok |-> TRUE, items |-> l] : l \in listings}

----------------------------------------------------------------------------
(* The steps of one check.  c names the check; Listings, CpuAnswers,        *)
(* InAnswers and OutAnswers are what the providers may answer.              *)

\* the inventory call (lines 58, 114, 146, 182) and, when it raises, the except clause
DescribeStep(c, Listings) ==
    /\ pc = <<c, "call">>
    /\ \E answer \in InventoryAnswers(Listings) :
         IF answer.ok
         THEN /\ inventory' = Listed(c, answer.items)
              /\ pc' = <<c, "loop">>
              /\ UNCHANGED listingFailed
         ELSE /\ inventory' = <<>>
              /\ pc' = <<c, "except">>
              /\ listingFailed' = listingFailed \cup {c}
    /\ i' = 1
    /\ underutilized' = <<>>
    /\ expected' = <<>>
    /\ evaluated' = {}
    /\ raisedAt' = 0
    /\ metricKinds' = <<>>
    /\ UNCHANGED <<cpu_avg, network_in, network_out, handlerLocals, publishVars,
                   outcomeVars, loopRaised, expectedOf, checksRun>>

\* the loop body, the rule and the except clause of check c
BodyOf(c, record, a, b, d, acc) ==
    CASE c = "ec2" -> ec2_body(record, a, b, d, acc)
      [] c = "rds" -> rds_body(record, a, b, d, acc)
      [] c = "snapshots" -> snapshot_body(record, a, b, d, acc)
      [] c = "volumes" -> volume_body(record, a, b, d, acc)

RuleOf(c, record, cpu, nin, nout) ==
    CASE c = "ec2" -> Ec2Rule(record, cpu, nin, nout)
      [] c = "rds" -> RdsRule(record, cpu, nin, nout)
      [] c = "snapshots" -> SnapshotRule(record, cpu, nin, nout)
      [] c = "volumes" -> VolumeRule(record, cpu, nin, nout)

ExceptOf(c, acc) ==
    CASE c = "ec2" -> ec2_except(acc)
      [] c = "rds" -> rds_except(acc)
      [] c = "snapshots" -> snapshot_except(acc)
      [] c = "volumes" -> volume_except(acc)

\* one turn of the for loop
LoopStep(c, CpuAnswers, InAnswers, OutAnswers) ==
    /\ pc = <<c, "loop">>
    /\ i <= Len(inventory)
    /\ \E a \in CpuAnswers, b \in InAnswers, d \in OutAnswers :
         \E r \in {BodyOf(c, inventory[i], a, b, d, underutilized)} :
         IF r.raised
         THEN /\ pc' = <<c, "except">>
              /\ raisedAt' = i
              /\ loopRaised' = loopRaised \cup {c}
              /\ UNCHANGED <<i, underutilized, cpu_avg, network_in, network_out,
                             metricKinds, expected, evaluated>>
         ELSE /\ pc' = pc
              /\ i' = i + 1
              /\ underutilized' = r.acc
              /\ cpu_avg' = IF r.calls >= 1 THEN r.cpu ELSE cpu_avg
              /\ network_in' = IF r.calls >= 2 THEN r.nin ELSE network_in
              /\ network_out' = IF r.calls >= 3 THEN r.nout ELSE network_out
              /\ metricKinds' = SubSeq(<<MetricKind(a), MetricKind(b), MetricKind(d)>>,
                                       1, r.calls)
              /\ evaluated' = evaluated \cup {i}
              /\ expected' = IF RuleOf(c, inventory[i], r.cpu, r.nin, r.nout)
                             THEN Append(expected, i)
                             ELSE expected
              /\ UNCHANGED <<raisedAt, loopRaised>>
    /\ UNCHANGED <<inventory, handlerLocals, publishVars, outcomeVars,
                   listingFailed, expectedOf, checksRun>>

\* the check returns (lines 103, 134, 171, 199) and lambda_handler binds its
\* local (lines 288-291), or an exception the check let out reaches
\* lambda_handler's except clause
ReturnStep(c) ==
    /\ IF pc = <<c, "loop">> THEN i > Len(inventory) ELSE pc = <<c, "except">>
    /\ \E ret \in {IF pc = <<c, "except">>
                   THEN ExceptOf(c, underutilized)
                   ELSE [raised |-> FALSE, value |-> underutilized]} :
           IF ret.raised
           THEN LET h == lambda_handler_except(c) IN
                /\ result' = h.result
                /\ escaped' = h.escaped
                /\ pc' = <<"handler", "done">>
                /\ UNCHANGED <<handlerLocals, expectedOf, checksRun>>
           ELSE /\ ec2_underused' = IF c = "ec2" THEN ret.value ELSE ec2_underused
                /\ rds_underused' = IF c = "rds" THEN ret.value ELSE rds_underused
                /\ old_snapshots' = IF c = "snapshots" THEN ret.value ELSE old_snapshots
                /\ unattached_volumes' = IF c = "volumes" THEN ret.value ELSE unattached_volumes
                /\ expectedOf' = [expectedOf EXCEPT ![c] = expected]
                /\ checksRun' = Append(checksRun, c)
                /\ pc' = NextPc(c)
                /\ UNCHANGED outcomeVars
    /\ inventory' = <<>>
    /\ i' = 1
    /\ underutilized' = <<>>
    /\ expected' = <<>>
    /\ evaluated' = {}
    /\ raisedAt' = 0
    /\ metricKinds' = <<>>
    /\ cpu_avg' = Zero
    /\ network_in' = Zero
    /\ network_out' = Zero
    /\ UNCHANGED <<publishVars, listingFailed, loopRaised>>

----------------------------------------------------------------------------
(* estimate_monthly_savings, lines 204-226, in cents. *)
ec2_pricing ==
    ("t2.micro" :> 850) @@ ("t2.small" :> 1700) @@ ("t2.medium" :> 3400) @@
    ("t3.micro" :> 750) @@ ("t3.small" :> 1500) @@ ("t3.medium" :> 3000) @@
    ("m5.large" :> 7000) @@ ("m5.xlarge" :> 14000) @@ ("c5.large" :> 6200)

rds_pricing ==
    ("db.t3.micro" :> 1500) @@ ("db.t3.small" :> 3000) @@ ("db.m5.large" :> 14000)

\* a class value that is no string but a list: dict.get raises TypeError on it
Unhashable == {"['t3.micro']", "['db.t3.micro']"}

RECURSIVE SumPrices(_, _, _)
SumPrices(pricing, data, default) ==
    IF data = <<>> THEN 0
    ELSE Get(pricing, Head(data)[3], default) + SumPrices(pricing, Tail(data), default)

EstimateZeroDefault(ec2_data, rds_data, volume_data) ==
    LET ec2_savings == SumPrices(ec2_pricing, ec2_data, 0)
        rds_savings == SumPrices(rds_pricing, rds_data, 0)
        volume_savings == Len(volume_data) * 800
    IN  [raised |-> FALSE,
         value |-> [ec2 |-> ec2_savings, rds |-> rds_savings, storage |-> volume_savings,
                    total |-> ec2_savings + rds_savings + volume_savings]]

estimate_monthly_savings(ec2_data, rds_data, volume_data) ==
    IF \/ \E j \in DOMAIN ec2_data : ec2_data[j][3] \in Unhashable
       \/ \E j \in DOMAIN rds_data : rds_data[j][3] \in Unhashable
    THEN [raised |-> TRUE, value |-> NoSavings]
    ELSE LET ec2_savings == SumPrices(ec2_pricing, ec2_data, 5000)
             rds_savings == SumPrices(rds_pricing, rds_data, 5000)
             volume_savings == Len(volume_data) * 800
         IN  [raised |-> FALSE,
              value |-> [ec2 |-> ec2_savings, rds |-> rds_savings,
                         storage |-> volume_savings,
                         total |-> ec2_savings + rds_savings + volume_savings]]

----------------------------------------------------------------------------
(* publish_enhanced_alert, lines 231-278. *)

NothingFoundLooksAtEc2Only(ec2_data, rds_data, ebs_data, volume_data) == ec2_data = <<>>

\* line 233: not any([ec2_data, rds_data, ebs_data, volume_data])
nothing_found(ec2_data, rds_data, ebs_data, volume_data) ==
    /\ ec2_data = <<>>
    /\ rds_data = <<>>
    /\ ebs_data = <<>>
    /\ volume_data = <<>>

\* lines 237-268: the message, one tuple a line
compose_message(ec2_data, rds_data, ebs_data, volume_data, s) ==
    <<  <<"*AWS Cost Optimization Report*">>, <<"Estimated Monthly Savings: $", s.total>>  >>
    \o (IF ec2_data # <<>>
        THEN << <<"underutilized EC2 Instances", s.ec2>> >>
             \o [j \in DOMAIN ec2_data |->
                   <<"ec2", ec2_data[j][1], Get(ec2_data[j][4], "Name", "Unnamed"),
                     ec2_data[j][3], ec2_data[j][2]>>]
        ELSE <<>>)
    \o (IF rds_data # <<>>
        THEN << <<"Underutilized RDS Instances", s.rds>> >>
             \o [j \in DOMAIN rds_data |->
                   <<"rds", rds_data[j][1], rds_data[j][3], rds_data[j][2]>>]
        ELSE <<>>)
    \o (IF volume_data # <<>>
        THEN << <<"Unattached EBS Volumes", s.storage>> >>
             \o [j \in DOMAIN volume_data |->
                   <<"volume", volume_data[j][1], volume_data[j][3], volume_data[j][2]>>]
        ELSE <<>>)
    \o (IF ebs_data # <<>>
        THEN << <<"Old EBS Snapshots", EBS_SNAPSHOT_AGE_DAYS>> >>
             \o [j \in DOMAIN ebs_data |->
                   <<"snapshot", ebs_data[j][1], ebs_data[j][3], ebs_data[j][2], ebs_data[j][4]>>]
        ELSE <<>>)
    \o << <<"*Recommendations:*">> >>

\* lines 277-278: the exception is printed
sns_except == [raised |-> FALSE]

PublishNothing(estimated, raised) ==
    [raised |-> raised, estimated |-> estimated, savings |-> NoSavings,
     message |-> <<>>, called |-> FALSE, accepted |-> FALSE, subject |-> <<>>]

\* lines 236-278: the call once something was found, given whether sns.publish accepts
publish_findings(ec2_data, rds_data, ebs_data, volume_data, snsOk) ==
    LET est == estimate_monthly_savings(ec2_data, rds_data, volume_data) IN
    IF est.raised THEN PublishNothing(TRUE, TRUE)
    ELSE [raised |-> IF snsOk THEN FALSE ELSE sns_except.raised,
          estimated |-> TRUE,
          savings |-> est.value,
          message |-> compose_message(ec2_data, rds_data, ebs_data, volume_data, est.value),
          called |-> TRUE,
          accepted |-> snsOk,
          subject |-> <<"AWS Cost Optimization Report - Potential Savings: $",
                        est.value.total>>]

PublishEstimatesFirst(ec2_data, rds_data, ebs_data, volume_data, snsOk) ==
    IF nothing_found(ec2_data, rds_data, ebs_data, volume_data)
    THEN PublishNothing(TRUE, FALSE)
    ELSE publish_findings(ec2_data, rds_data, ebs_data, volume_data, snsOk)

\* lines 231-278: the whole call
publish_enhanced_alert(ec2_data, rds_data, ebs_data, volume_data, snsOk) ==
    IF nothing_found(ec2_data, rds_data, ebs_data, volume_data)
    THEN PublishNothing(FALSE, FALSE)
    ELSE publish_findings(ec2_data, rds_data, ebs_data, volume_data, snsOk)

----------------------------------------------------------------------------
(* lambda_handler, lines 283-311. *)

\* lines 296-304
summary(e, r, s, v) ==
    [statusCode |-> 200,
     body |-> [underutilized_ec2 |-> Len(e), underutilized_rds |-> Len(r),
               old_snapshots |-> Len(s), unattached_volumes |-> Len(v)]]

\* line 293
PublishStep(SnsAnswers) ==
    /\ pc = <<"handler", "publish">>
    /\ \E snsOk \in SnsAnswers :
         \E p \in {publish_enhanced_alert(ec2_underused, rds_underused, old_snapshots,
                                           unattached_volumes, snsOk)} :
             /\ composerCalls' = composerCalls + 1
             /\ estimatorCalls' = IF p.estimated THEN estimatorCalls + 1 ELSE estimatorCalls
             /\ snsCalls' = IF p.called THEN snsCalls + 1 ELSE snsCalls
             /\ checksAtPublish' = IF p.called THEN Len(checksRun) ELSE checksAtPublish
             /\ snsFailed' = (p.called /\ ~p.accepted)
             /\ published' = IF p.accepted
                             THEN Append(published, <<p.subject, p.message>>)
                             ELSE published
             /\ savings' = p.savings
             /\ message' = p.message
             /\ IF p.raised
                THEN LET h == lambda_handler_except("publish") IN
                     /\ result' = h.result
                     /\ escaped' = h.escaped
                     /\ pc' = <<"handler", "done">>
                ELSE /\ pc' = <<"handler", "return">>
                     /\ UNCHANGED outcomeVars
    /\ UNCHANGED <<checkLocals, handlerLocals, historyOfChecks>>

\* lines 296-304
ReturnSummary ==
    /\ pc = <<"handler", "return">>
    /\ result' = summary(ec2_underused, rds_underused, old_snapshots, unattached_volumes)
    /\ pc' = <<"handler", "done">>
    /\ UNCHANGED <<checkLocals, handlerLocals, publishVars, historyOfChecks, escaped>>

----------------------------------------------------------------------------
(* The four checks and the handler, over what the providers may answer. *)
check_underutilized_ec2(Listings, CpuAnswers, NetAnswers) ==
    \/ DescribeStep("ec2", Listings)
    \/ LoopStep("ec2", CpuAnswers, NetAnswers, NetAnswers)
    \/ ReturnStep("ec2")

check_underutilized_rds(Listings, CpuAnswers) ==
    \/ DescribeStep("rds", Listings)
    \/ LoopStep("rds", CpuAnswers, NoMetric, NoMetric)
    \/ ReturnStep("rds")

check_old_ebs_snapshots(Listings) ==
    \/ DescribeStep("snapshots", Listings)
    \/ LoopStep("snapshots", NoMetric, NoMetric, NoMetric)
    \/ ReturnStep("snapshots")

check_unattached_volumes(Listings) ==
    \/ DescribeStep("volumes", Listings)
    \/ LoopStep("volumes", NoMetric, NoMetric, NoMetric)
    \/ ReturnStep("volumes")

lambda_handler(Ec2Listings, RdsListings, SnapshotListings, VolumeListings, CpuAnswers, NetAnswers) ==
    \/ check_underutilized_ec2(Ec2Listings, CpuAnswers, NetAnswers)
    \/ check_underutilized_rds(RdsListings, CpuAnswers)
    \/ check_old_ebs_snapshots(SnapshotListings)
    \/ check_unattached_volumes(VolumeListings)
    \/ PublishStep(BOOLEAN)
    \/ ReturnSummary

InitAt(start) ==
    /\ pc = start
    /\ inventory = <<>>
    /\ i = 1
    /\ underutilized = <<>>
    /\ cpu_avg = Zero
    /\ network_in = Zero
    /\ network_out = Zero
    /\ ec2_underused = <<>>
    /\ rds_underused = <<>>
    /\ old_snapshots = <<>>
    /\ unattached_volumes = <<>>
    /\ savings = NoSavings
    /\ message = <<>>
    /\ published = <<>>
    /\ result = NoResult
    /\ escaped = FALSE
    /\ metricKinds = <<>>
    /\ expected = <<>>
    /\ evaluated = {}
    /\ raisedAt = 0
    /\ listingFailed = {}
    /\ loopRaised = {}
    /\ expectedOf = [c \in {"ec2", "rds", "snapshots", "volumes"} |-> <<>>]
    /\ checksRun = <<>>
    /\ estimatorCalls = 0
    /\ composerCalls = 0
    /\ snsCalls = 0
    /\ snsFailed = FALSE
    /\ checksAtPublish = 0

----------------------------------------------------------------------------
(* What the providers answer.  A listing is a sequence of at most           *)
(* MaxRecords records; a metric answer is a failure or a sequence of        *)
(* datapoint averages, among them no datapoints, a mean that meets the      *)
(* threshold exactly and a mean that is no whole number.                    *)
CpuAnswers ==
    {MetricFails, Datapoints(<<>>), Datapoints(<<5>>), Datapoints(<<15>>),
     Datapoints(<<5, 15>>), Datapoints(<<5, 5, 15>>)}

NetAnswers ==
    {MetricFails, Datapoints(<<>>), Datapoints(<<500>>), Datapoints(<<500, 1500>>)}

\* a whole run: one kind of record in each category, two of snapshots
RunEc2Shapes == {[InstanceType |-> "t3.micro", Tags |-> <<>>]}

RunRdsShapes == {[DBInstanceStatus |-> "available", DBInstanceClass |-> "db.t3.micro"]}

RunSnapshotShapes ==
    {[StartTime |-> 24 * 45, VolumeSize |-> 8, Tags |-> <<>>],
     [StartTime |-> 24 * 10, VolumeSize |-> 8, Tags |-> <<>>]}

RunVolumeShapes == {[Size |-> 100, VolumeType |-> "gp2", Tags |-> <<>>]}

RunCpu == {MetricFails, Datapoints(<<15>>)}

RunNet == {MetricFails, Datapoints(<<500>>)}

\* records that lack a required key
MalformedEc2 == {[Tags |-> <<>>]}

MalformedRds == {[DBInstanceStatus |-> "available"]}

MalformedSnapshot == {[VolumeSize |-> 8]}

MalformedVolume == {[Size |-> 100]}

\* records whose class is no string
HostileEc2 == {[InstanceType |-> "['t3.micro']", Tags |-> <<>>]}

HostileRds == {[DBInstanceStatus |-> "available", DBInstanceClass |-> "['db.t3.micro']"]}

Listings(shapes) == SeqsUpTo(shapes, MaxRecords)

(* A run of lambda_handler against providers that answer with records as    *)
(* the AWS APIs document them.                                              *)
Init == InitAt(<<"ec2", "call">>)

Next ==
    lambda_handler(Listings(RunEc2Shapes), Listings(RunRdsShapes),
                   Listings(RunSnapshotShapes), Listings(RunVolumeShapes),
                   RunCpu, RunNet)

Spec == Init /\ [][Next]_vars

(* A run against providers that may also list a record without a required   *)
(* key.                                                                     *)
NextMalformed ==
    lambda_handler(Listings(RunEc2Shapes \cup MalformedEc2),
                   Listings(RunRdsShapes \cup MalformedRds),
                   Listings(RunSnapshotShapes \cup MalformedSnapshot),
                   Listings(RunVolumeShapes \cup MalformedVolume),
                   RunCpu, RunNet)

SpecMalformed == Init /\ [][NextMalformed]_vars

(* A run against providers that may list anything: a record without a       *)
(* required key, a class that is a list.                                    *)
NextHostile ==
    lambda_handler(Listings(RunEc2Shapes \cup MalformedEc2 \cup HostileEc2),
                   Listings(RunRdsShapes \cup MalformedRds \cup HostileRds),
                   Listings(RunSnapshotShapes \cup MalformedSnapshot),
                   Listings(RunVolumeShapes \cup MalformedVolume),
                   RunCpu, RunNet)

SpecHostile == Init /\ [][NextHostile]_vars

----------------------------------------------------------------------------
(* check_underutilized_ec2 alone, over instances with and without the       *)
(* opt-out tag and every metric answer.                                     *)
Ec2Shapes ==
    {[InstanceType |-> "t3.micro", Tags |-> tags] :
        tags \in {<<>>,
                  <<Tag("CostOptimization", "Ignore")>>,
                  <<Tag("Name", "web"), Tag("CostOptimization", "Review")>>}}
    \cup {[InstanceType |-> "m5.large"]}

NextCompute == check_underutilized_ec2(Listings(Ec2Shapes), CpuAnswers, NetAnswers)

SpecCompute == Init /\ [][NextCompute]_vars

(* check_underutilized_ec2 then check_underutilized_rds, over every metric  *)
(* answer.                                                                  *)
MetricsEc2Shapes ==
    {[InstanceType |-> "t3.micro", Tags |-> <<>>],
     [InstanceType |-> "t3.micro", Tags |-> <<Tag("CostOptimization", "Ignore")>>]}

RdsShapes ==
    {[DBInstanceStatus |-> status, DBInstanceClass |-> "db.t3.micro"] :
        status \in {"available", "stopped"}}

NextMetrics ==
    \/ check_underutilized_ec2(Listings(MetricsEc2Shapes), CpuAnswers, NetAnswers)
    \/ check_underutilized_rds(Listings(RdsShapes), CpuAnswers)

SpecMetrics == Init /\ [][NextMetrics]_vars

(* check_old_ebs_snapshots alone, over snapshots around the age threshold   *)
(* with and without the keep tags.  StartTime is the hours elapsed at now.  *)
SnapshotShapes ==
    {[StartTime |-> hours, VolumeSize |-> 8, Tags |-> tags] :
        hours \in {24 * EBS_SNAPSHOT_AGE_DAYS - 1, 24 * EBS_SNAPSHOT_AGE_DAYS,
                   24 * EBS_SNAPSHOT_AGE_DAYS + 23, 24 * EBS_SNAPSHOT_AGE_DAYS + 24,
                   24 * 45},
        tags \in {<<>>, <<Tag("Keep", "false")>>, <<Tag("Backup", "daily")>>,
                  <<Tag("DoNotDelete", "")>>, <<Tag("Name", "db")>>}}
    \cup {[StartTime |-> 24 * 45]}

InitSnapshot == InitAt(<<"snapshots", "call">>)

NextSnapshot == check_old_ebs_snapshots(Listings(SnapshotShapes))

SpecSnapshot == InitSnapshot /\ [][NextSnapshot]_vars

(* estimate_monthly_savings and publish_enhanced_alert alone, over finding  *)
(* lists of every priced and unpriced class.                                *)
Ec2FindingLists ==
    {[j \in DOMAIN t |-> <<j, 500, t[j], TagDict(<<>>)>>] :
        t \in SeqsUpTo({"t3.micro", "t2.micro", "x2.unlisted"}, MaxRecords)}

RdsFindingLists ==
    {[j \in DOMAIN t |-> <<j, 500, t[j]>>] :
        t \in SeqsUpTo({"db.t3.micro", "db.x2.unlisted"}, MaxRecords)}

SnapshotFindingLists ==
    {[j \in 1..n |-> <<j, 45, "Unnamed", <<8, "GB">> >>] : n \in 0..MaxRecords}

VolumeFindingLists ==
    {[j \in 1..n |-> <<j, <<100, "GB">>, "Unnamed">>] : n \in 0..MaxRecords}

FoundIds(acc) == [j \in DOMAIN acc |-> acc[j][1]]

InitSavings ==
    /\ pc = <<"handler", "publish">>
    /\ ec2_underused \in Ec2FindingLists
    /\ rds_underused \in RdsFindingLists
    /\ old_snapshots \in SnapshotFindingLists
    /\ unattached_volumes \in VolumeFindingLists
    /\ inventory = <<>>
    /\ i = 1
    /\ underutilized = <<>>
    /\ cpu_avg = Zero
    /\ network_in = Zero
    /\ network_out = Zero
    /\ savings = NoSavings
    /\ message = <<>>
    /\ published = <<>>
    /\ result = NoResult
    /\ escaped = FALSE
    /\ metricKinds = <<>>
    /\ expected = <<>>
    /\ evaluated = {}
    /\ raisedAt = 0
    /\ listingFailed = {}
    /\ loopRaised = {}
    /\ expectedOf = ("ec2" :> FoundIds(ec2_underused)) @@ ("rds" :> FoundIds(rds_underused))
                    @@ ("snapshots" :> FoundIds(old_snapshots))
                    @@ ("volumes" :> FoundIds(unattached_volumes))
    /\ checksRun = Checks
    /\ estimatorCalls = 0
    /\ composerCalls = 0
    /\ snsCalls = 0
    /\ snsFailed = FALSE
    /\ checksAtPublish = 0

NextSavings ==
    \/ PublishStep(BOOLEAN)
    \/ ReturnSummary

SpecSavings == InitSavings /\ [][NextSavings]_vars

----------------------------------------------------------------------------
(* Properties. *)
Done == pc = <<"handler", "done">>

Findings(c) ==
    CASE c = "ec2" -> ec2_underused
      [] c = "rds" -> rds_underused
      [] c = "snapshots" -> old_snapshots
      [] c = "volumes" -> unattached_volumes

HasReturned(c) == \E j \in DOMAIN checksRun : checksRun[j] = c

Ids(acc) == {acc[j][1] : j \in DOMAIN acc}

AllEmpty ==
    /\ ec2_underused = <<>>
    /\ rds_underused = <<>>
    /\ old_snapshots = <<>>
    /\ unattached_volumes = <<>>

\* the Completed summary: status 200 and the four counts
Completed ==
    /\ result.statusCode = 200
    /\ DOMAIN result.body = {"underutilized_ec2", "underutilized_rds", "old_snapshots",
                             "unattached_volumes"}
    /\ result.body.underutilized_ec2 = Len(ec2_underused)
    /\ result.body.underutilized_rds = Len(rds_underused)
    /\ result.body.old_snapshots = Len(old_snapshots)
    /\ result.body.unattached_volumes = Len(unattached_volumes)

\* the Failed summary: status 500 and an error description
Failed ==
    /\ result.statusCode = 500
    /\ DOMAIN result.body = {"error"}

(* C1: whatever the inventory calls, the metric calls and sns.publish do,    *)
(* no exception leaves lambda_handler, a run that has not returned can take *)
(* a step, and a run that has returned holds status 200 with the four       *)
(* finding counts or status 500 with an error description.                  *)
C1_NeverRaises ==
    /\ ~escaped
    /\ ~Done => ENABLED NextHostile
    /\ Done => (Completed \/ Failed)

C1_Witness ==
    /\ Done
    /\ Failed
    /\ listingFailed # {}
    /\ loopRaised # {}

(* C2: a check whose inventory call raised returns no finding, every check  *)
(* returns exactly the findings its rule selects from its own listing       *)
(* whichever other calls raised, and the run goes through all four checks   *)
(* and returns the Completed summary.                                       *)
C2_ListingFailureIsolated ==
    /\ \A c \in listingFailed : HasReturned(c) => Findings(c) = <<>>
    /\ \A c \in listingFailed : HasReturned(c) \/ pc = <<c, "except">>
    /\ \A j \in DOMAIN checksRun :
           FoundIds(Findings(checksRun[j])) = expectedOf[checksRun[j]]
    /\ Done => (checksRun = Checks /\ Completed)

C2_Witness ==
    /\ Done
    /\ Completed
    /\ listingFailed = {"rds"}
    /\ rds_underused = <<>>
    /\ Len(ec2_underused) = 2
    /\ old_snapshots # <<>>
    /\ unattached_volumes # <<>>

(* C3, as the specification states it: when sns.publish raised, the summary *)
(* lambda_handler returns reflects the delivery failure, so it is not the   *)
(* Completed summary of a run whose alert was delivered.                    *)
C3_NotifierFailureReported ==
    (Done /\ snsFailed) => ~Completed

(* C4: sns.publish is called at most once and only after all four checks    *)
(* returned; a run that returned called it if and only if some finding list *)
(* is non-empty; with four empty lists it returns the Completed summary     *)
(* with four zero counts.                                                   *)
C4_NotifierIffFindings ==
    /\ snsCalls <= 1
    /\ snsCalls = 1 => (checksAtPublish = 4 /\ checksRun = Checks)
    /\ Done => (snsCalls = 1 <=> ~AllEmpty)
    /\ (Done /\ AllEmpty) =>
          /\ snsCalls = 0
          /\ published = <<>>
          /\ Completed
          /\ \A k \in DOMAIN result.body : result.body[k] = 0

C4_Witness ==
    /\ Done
    /\ snsCalls = 1
    /\ ec2_underused = <<>>
    /\ rds_underused = <<>>
    /\ unattached_volumes = <<>>
    /\ Len(old_snapshots) = 1

(* C5, as the specification states it: a run that returned has invoked the  *)
(* savings estimator and the report composer.                               *)
C5_EstimatorAlwaysInvoked ==
    Done => (estimatorCalls >= 1 /\ composerCalls >= 1)

(* C5, amended: publish_enhanced_alert is invoked once, after all four      *)
(* checks returned; it invokes estimate_monthly_savings exactly when some   *)
(* finding list is non-empty, and with four empty lists it returns without  *)
(* estimating and the run returns the Completed summary.                    *)
C5_ComposerAlwaysEstimatorIfFound ==
    /\ composerCalls <= 1
    /\ estimatorCalls <= composerCalls
    /\ composerCalls = 1 => checksRun = Checks
    /\ Done =>
          /\ composerCalls = 1
          /\ estimatorCalls = 1 <=> ~AllEmpty
          /\ AllEmpty => (Completed /\ ~escaped)

C5_Witness ==
    /\ Done
    /\ AllEmpty
    /\ listingFailed = {"ec2", "rds", "snapshots", "volumes"}
    /\ composerCalls = 1
    /\ estimatorCalls = 0
    /\ Completed

(* C6: in check_underutilized_ec2 every listed instance is evaluated, and   *)
(* an instance is among the findings if and only if it carries no           *)
(* CostOptimization=Ignore tag and its CPU average is below                 *)
(* EC2_CPU_THRESHOLD and its NetworkIn and NetworkOut averages are below    *)
(* NETWORK_THRESHOLD, each strictly.                                        *)
C6_ComputeRule ==
    /\ pc[1] = "ec2" =>
          /\ raisedAt = 0
          /\ pc = <<"ec2", "loop">> => evaluated = 1..(i - 1)
          /\ FoundIds(underutilized) = expected
          /\ \A k \in Ids(underutilized) :
                 k \in DOMAIN inventory /\ ~HasTag(inventory[k], "CostOptimization", "Ignore")
          /\ (pc = <<"ec2", "loop">> /\ i > 1) =>
                 ((i - 1) \in Ids(underutilized)
                    <=> Ec2Rule(inventory[i - 1], cpu_avg, network_in, network_out))
    /\ HasReturned("ec2") => FoundIds(ec2_underused) = expectedOf["ec2"]

C6_Witness ==
    /\ pc = <<"ec2", "loop">>
    /\ i = 3
    /\ FoundIds(underutilized) = <<1>>
    /\ ~HasTagKey(inventory[2], "CostOptimization")
    /\ cpu_avg = Rat(EC2_CPU_THRESHOLD, 1)
    /\ Below(network_in, NETWORK_THRESHOLD)
    /\ Below(network_out, NETWORK_THRESHOLD)

(* C7: in check_old_ebs_snapshots every listed snapshot is evaluated, and a *)
(* snapshot is among the findings if and only if its tags hold none of the  *)
(* keys DoNotDelete, Keep, Backup and its age in whole days is greater than *)
(* EBS_SNAPSHOT_AGE_DAYS.                                                   *)
C7_SnapshotRule ==
    /\ pc[1] = "snapshots" =>
          /\ raisedAt = 0
          /\ pc = <<"snapshots", "loop">> => evaluated = 1..(i - 1)
          /\ FoundIds(underutilized) = expected
          /\ \A k \in evaluated :
                 k \in Ids(underutilized)
                    <=> /\ ~HasTagKey(inventory[k], "DoNotDelete")
                        /\ ~HasTagKey(inventory[k], "Keep")
                        /\ ~HasTagKey(inventory[k], "Backup")
                        /\ inventory[k].StartTime \div 24 > EBS_SNAPSHOT_AGE_DAYS
    /\ HasReturned("snapshots") => FoundIds(old_snapshots) = expectedOf["snapshots"]

C7_Witness ==
    /\ pc = <<"snapshots", "loop">>
    /\ i = 3
    /\ HasTag(inventory[1], "Keep", "false")
    /\ inventory[1].StartTime = 24 * 45
    /\ inventory[2].StartTime = 24 * EBS_SNAPSHOT_AGE_DAYS + 23
    /\ ~HasTagKey(inventory[2], "Keep")
    /\ underutilized = <<>>

\* the subtotal the specification words: each finding's table price, or 50
PricedAt(pricing, data) ==
    SumSeq([j \in DOMAIN data |->
              IF data[j][3] \in DOMAIN pricing THEN pricing[data[j][3]] ELSE 5000])

(* C8: for the finding lists at hand, estimate_monthly_savings returns      *)
(* subtotals that are not negative, a total that is their sum, an ec2 and   *)
(* an rds subtotal that add each finding's table price or 50 for a class    *)
(* the table lacks, and a storage subtotal of 8 a volume; the estimate      *)
(* publish_enhanced_alert obtains, with the snapshot findings at hand, is   *)
(* that same estimate.                                                      *)
C8_Savings ==
    \E est \in {estimate_monthly_savings(ec2_underused, rds_underused, unattached_volumes)} :
        /\ ~est.raised
        /\ est.value.ec2 >= 0
        /\ est.value.rds >= 0
        /\ est.value.storage >= 0
        /\ est.value.total = est.value.ec2 + est.value.rds + est.value.storage
        /\ est.value.ec2 = PricedAt(ec2_pricing, ec2_underused)
        /\ est.value.rds = PricedAt(rds_pricing, rds_underused)
        /\ est.value.storage = 800 * Len(unattached_volumes)
        /\ estimatorCalls = 1 => savings = est.value

C8_Witness ==
    /\ estimatorCalls = 1
    /\ Len(old_snapshots) = 2
    /\ Len(unattached_volumes) = 1
    /\ Len(ec2_underused) = 2
    /\ ec2_underused[1][3] = "t2.micro"
    /\ ec2_underused[2][3] = "x2.unlisted"
    /\ rds_underused = <<>>
    /\ savings = [ec2 |-> 5850, rds |-> 0, storage |-> 800, total |-> 6650]

NoSignal(kind) == kind \in {"error", "empty"}

(* C9: no failure of a metric call ends a check's loop; a metric call that  *)
(* raised or returned no datapoint yields 0.0; and an instance that is not  *)
(* opted out, or an available database, whose metric calls all raised or    *)
(* returned no datapoint is among the findings.                             *)
C9_MetricFailureIsZero ==
    /\ loopRaised = {}
    /\ raisedAt = 0
    /\ pc \in {<<"ec2", "loop">>, <<"rds", "loop">>} =>
          /\ evaluated = 1..(i - 1)
          /\ Len(metricKinds) >= 1 => (NoSignal(metricKinds[1]) => cpu_avg = Zero)
          /\ Len(metricKinds) >= 2 => (NoSignal(metricKinds[2]) => network_in = Zero)
          /\ Len(metricKinds) >= 3 => (NoSignal(metricKinds[3]) => network_out = Zero)
          /\ (metricKinds # <<>> /\ \A j \in DOMAIN metricKinds : NoSignal(metricKinds[j])) =>
                 (i - 1) \in Ids(underutilized)

C9_Witness ==
    /\ pc = <<"rds", "loop">>
    /\ i = 3
    /\ metricKinds = <<"error">>
    /\ FoundIds(underutilized) = <<2>>
    /\ inventory[1].DBInstanceStatus = "available"
    /\ "ec2" \notin listingFailed
    /\ Len(ec2_underused) = 2

\* the lines of the message that render a finding of the category
Rendered(kind) == {message[j][2] : j \in {m \in DOMAIN message : message[m][1] = kind}}

(* C10: when a check's loop raises on the record at position k, the records *)
(* before k are the only ones evaluated, the check returns the findings     *)
(* among them, and that list is what the summary counts and the report      *)
(* renders.                                                                 *)
C10_PartialFindingsKept ==
    /\ \A c \in {"ec2", "rds", "snapshots", "volumes"} :
          /\ (pc = <<c, "except">> /\ raisedAt > 0) =>
                /\ i = raisedAt
                /\ evaluated = 1..(raisedAt - 1)
                /\ FoundIds(underutilized) = expected
                /\ c \in loopRaised
          /\ (c \in loopRaised /\ HasReturned(c)) => FoundIds(Findings(c)) = expectedOf[c]
    /\ Done => Completed
    /\ (Done /\ snsCalls = 1) =>
          /\ Rendered("ec2") = Ids(ec2_underused)
          /\ Rendered("snapshot") = Ids(old_snapshots)
          /\ Rendered("volume") = Ids(unattached_volumes)

C10_Witness ==
    /\ Done
    /\ {"ec2", "snapshots", "volumes"} \subseteq loopRaised
    /\ Len(ec2_underused) = 1
    /\ Len(old_snapshots) = 1
    /\ Len(unattached_volumes) = 1
    /\ result.body.underutilized_ec2 = 1
    /\ result.body.old_snapshots = 1
    /\ result.body.unattached_volumes = 1
    /\ Rendered("ec2") = {1}

====
